---- MODULE Spec2Model ----
(***************************************************************************)
(* A model of lintorch/core/editable_module.py: the parameter bookkeeping  *)
(* of EditableModule (getuniqueparams, setuniqueparams, the unique-index   *)
(* cache, the useparams scope), the object-graph traversal (_traverse_obj, *)
(* _get_tensors, _set_tensors) and the gradient-probing check of           *)
(* assertparams.                                                           *)
(*                                                                         *)
(* Tensors are modelled by their identity (what id() returns): a positive  *)
(* integer.  Python's None is the identity 0.  Python positions are kept   *)
(* 0-based, as in the source; a TLA+ sequence s holds position i at s[i+1].*)
(***************************************************************************)
EXTENDS Integers, Sequences, FiniteSets, TLC

VARIABLES
    params,               \* the object's parameter slots, per operation name
    has_unique_attrs,     \* hasattr(self, "_unique_params_idxs")
    unique_params_idxs,   \* self._unique_params_idxs
    unique_params_maps,   \* self._unique_params_maps
    number_of_params,     \* self._number_of_params
    scopes,               \* the useparams scopes that are open, innermost last
    last,                 \* the last call made on the object and how it ended
    rt,                   \* the get/set/get chain the last calls form
    heap,                 \* the object graph: the slots of every container
    tr,                   \* the last traversal of the graph and how it ended
    meth,                 \* the verified class: its operation and its setparams
    decl,                 \* what getparams of the verified object returns
    vr,                   \* the progress and the outcome of assertparams
    tens                  \* the value and the shape of every tensor

vars == <<params, has_unique_attrs, unique_params_idxs, unique_params_maps,
          number_of_params, scopes, last, rt, heap, tr, meth, decl, vr, tens>>

objvars == <<params, has_unique_attrs, unique_params_idxs, unique_params_maps,
             number_of_params, scopes, last, rt>>

graphvars == <<heap, tr, meth, decl, vr, tens>>

vervars == <<meth, decl, vr, tens>>

-----------------------------------------------------------------------------
(* Bounds *)

NumTensors == 2
MaxParams == 2
MaxScopes == 1
IdxTensors == 3
MaxLen == 4
GraphTensors == 2
NumContainers == 3
MaxSlots == 2
MaxSupply == 2
MaxDepthArg == 2
MaxDecl == 2
MaxNest == 2

-----------------------------------------------------------------------------
(* Values *)

None == 0
Tensors == 1..NumTensors

SeqsUpTo(S, n) == UNION {[1..k -> S] : k \in 0..n}

Range(s) == {s[k] : k \in 1..Len(s)}

\* list.index(x), 0-based; -1 stands for the ValueError of a missing element
IndexOf(s, x) ==
    IF \E j \in 1..Len(s) : s[j] = x
    THEN (CHOOSE j \in 1..Len(s) : s[j] = x /\ \A k \in 1..(j - 1) : s[k] # x) - 1
    ELSE -1

-----------------------------------------------------------------------------
(* The contract interface: an object that keeps, per operation name, a     *)
(* fixed number of parameter slots.                                        *)

getparams(ps, op) == ps[op]

\* setparams takes an excessive list: it writes the first n values into its
\* n slots and returns n; with fewer than n values it raises and sets nothing
setparams_ok(ps, op, vals) == Len(vals) >= Len(ps[op])

setparams(ps, op, vals) ==
    IF setparams_ok(ps, op, vals)
    THEN [ps EXCEPT ![op] = SubSeq(vals, 1, Len(ps[op]))]
    ELSE ps

setparams_ret(ps, op, vals) == Len(ps[op])

-----------------------------------------------------------------------------
(* The deduplication layer *)

\* UniqueLoop with the search for a seen identity finding nothing: every
\* position starts a group of its own
RECURSIVE UniqueLoop_nosearch(_, _, _)
UniqueLoop_nosearch(allparams, i, acc) ==
    IF i >= Len(allparams) THEN acc
    ELSE UniqueLoop_nosearch(allparams, i + 1,
            [ids |-> Append(acc.ids, allparams[i + 1]),
             idxs |-> Append(acc.idxs, i),
             idx_map |-> Append(acc.idx_map, <<i>>)])

\* the loop of _get_unique_params_idxs over positions i..len(allparams)-1
RECURSIVE UniqueLoop(_, _, _)
UniqueLoop(allparams, i, acc) ==
    IF i >= Len(allparams) THEN acc
    ELSE LET id_param == allparams[i + 1]
             jfound == IndexOf(acc.ids, id_param)
         IN  IF jfound >= 0
             THEN UniqueLoop(allparams, i + 1,
                     [acc EXCEPT !.idx_map[jfound + 1] = Append(@, i)])
             ELSE UniqueLoop(allparams, i + 1,
                     [ids |-> Append(acc.ids, id_param),
                      idxs |-> Append(acc.idxs, i),
                      idx_map |-> Append(acc.idx_map, <<i>>)])

UniqueIdxs(allparams) ==
    UniqueLoop(allparams, 0, [ids |-> <<>>, idxs |-> <<>>, idx_map |-> <<>>])

\* the three cache attributes, as one value
Cache == [has |-> has_unique_attrs, idxs |-> unique_params_idxs,
          maps |-> unique_params_maps, num |-> number_of_params]

\* f with the entry for key k set to v, k being added when it is not a key
Put(f, k, v) == [x \in (DOMAIN f) \cup {k} |-> IF x = k THEN v ELSE f[x]]

\* get_unique_params_idxs without the return of the cached entry of lines
\* 60-61: every request computes
get_unique_params_idxs_recompute(c, op, allparams) ==
    LET u == UniqueIdxs(allparams)
    IN  [cache |-> [has |-> TRUE,
                    idxs |-> Put(c.idxs, op, u.idxs),
                    maps |-> Put(c.maps, op, u.idx_map),
                    num |-> Put(c.num, op, Len(allparams))],
         idxs |-> u.idxs]

\* _get_unique_params_idxs(methodname, allparams): the cache it leaves and
\* the index list it returns
get_unique_params_idxs(c, op, allparams) ==
    IF c.has /\ op \in DOMAIN c.idxs
    THEN [cache |-> c, idxs |-> c.idxs[op]]
    ELSE LET u == UniqueIdxs(allparams)
         IN  [cache |-> [has |-> TRUE,
                         idxs |-> Put(c.idxs, op, u.idxs),
                         maps |-> Put(c.maps, op, u.idx_map),
                         num |-> Put(c.num, op, Len(allparams))],
              idxs |-> u.idxs]

\* getuniqueparams(methodname)
getuniqueparams(c, ps, op) ==
    LET allparams == getparams(ps, op)
        r == get_unique_params_idxs(c, op, allparams)
    IN  [cache |-> r.cache,
         ret |-> [j \in 1..Len(r.idxs) |-> allparams[r.idxs[j] + 1]]]

\* FillGroup writing p to the first position of the group only
FillGroup_first(allparams, jmap, k, p) ==
    IF Len(jmap) = 0 THEN allparams
    ELSE [allparams EXCEPT ![jmap[1] + 1] = p]

\* the inner loop of setuniqueparams: allparams[i] = p for i in jmap
RECURSIVE FillGroup(_, _, _, _)
FillGroup(allparams, jmap, k, p) ==
    IF k > Len(jmap) THEN allparams
    ELSE FillGroup([allparams EXCEPT ![jmap[k] + 1] = p], jmap, k + 1, p)

\* FillLoop with p = uniqueparams[0] for every group
RECURSIVE FillLoop_p0(_, _, _, _)
FillLoop_p0(allparams, maps, uniqueparams, j) ==
    IF j >= Len(uniqueparams) THEN [err |-> "none", allparams |-> allparams]
    ELSE IF j >= Len(maps) THEN [err |-> "IndexError", allparams |-> allparams]
    ELSE FillLoop_p0(FillGroup(allparams, maps[j + 1], 1, uniqueparams[1]),
                     maps, uniqueparams, j + 1)

\* the outer loop of setuniqueparams from j on; maps[j] raises IndexError
\* when j is past the last group
RECURSIVE FillLoop(_, _, _, _)
FillLoop(allparams, maps, uniqueparams, j) ==
    IF j >= Len(uniqueparams) THEN [err |-> "none", allparams |-> allparams]
    ELSE IF j >= Len(maps) THEN [err |-> "IndexError", allparams |-> allparams]
    ELSE FillLoop(FillGroup(allparams, maps[j + 1], 1, uniqueparams[j + 1]),
                  maps, uniqueparams, j + 1)

\* setuniqueparams that ignores the values beyond the number of cached
\* groups instead of raising
setuniqueparams_lenient(c, ps, op, uniqueparams) ==
    IF ~c.has
    THEN [err |-> "AttributeError", params |-> ps, setcalls |-> <<>>, count |-> -1]
    ELSE IF op \notin DOMAIN c.num
    THEN [err |-> "KeyError", params |-> ps, setcalls |-> <<>>, count |-> -1]
    ELSE LET nparams == c.num[op]
             nones == [i \in 1..nparams |-> None] \o <<>>
             given == IF Len(uniqueparams) > Len(c.maps[op])
                      THEN SubSeq(uniqueparams, 1, Len(c.maps[op]))
                      ELSE uniqueparams
             f == FillLoop(nones, c.maps[op], given, 0)
         IN  IF ~setparams_ok(ps, op, f.allparams)
             THEN [err |-> "SetParamsError", params |-> ps,
                   setcalls |-> <<f.allparams>>, count |-> -1]
             ELSE [err |-> "none", params |-> setparams(ps, op, f.allparams),
                   setcalls |-> <<f.allparams>>,
                   count |-> setparams_ret(ps, op, f.allparams)]

\* setuniqueparams(methodname, *uniqueparams): how it ends, the object's
\* parameters afterwards, the calls of setparams it made and what it returns
setuniqueparams(c, ps, op, uniqueparams) ==
    IF ~c.has
    THEN [err |-> "AttributeError", params |-> ps, setcalls |-> <<>>, count |-> -1]
    ELSE IF op \notin DOMAIN c.num
    THEN [err |-> "KeyError", params |-> ps, setcalls |-> <<>>, count |-> -1]
    ELSE LET nparams == c.num[op]
             \* the list of nparams Nones, as a sequence value
             nones == [i \in 1..nparams |-> None] \o <<>>
             f == FillLoop(nones, c.maps[op], uniqueparams, 0)
         IN  IF f.err # "none"
             THEN [err |-> f.err, params |-> ps, setcalls |-> <<>>, count |-> -1]
             ELSE IF ~setparams_ok(ps, op, f.allparams)
             THEN [err |-> "SetParamsError", params |-> ps,
                   setcalls |-> <<f.allparams>>, count |-> -1]
             ELSE [err |-> "none", params |-> setparams(ps, op, f.allparams),
                   setcalls |-> <<f.allparams>>,
                   count |-> setparams_ret(ps, op, f.allparams)]

-----------------------------------------------------------------------------------------------------------------------------------------------------
(* The object graph and its traversal.  A value of the graph is a float    *)
(* tensor (1..99), a container (an object with attributes or a list: more  *)
(* than 100) or a leaf that is neither (the scalar -1).  A container is    *)
(* the sequence of its slots in the order __dict__.items() or enumerate()  *)
(* yields them; the key of slot k is its 0-based position.                 *)

Scalar == -1
Cont(k) == 100 + k
Root == Cont(1)
Containers == {Cont(k) : k \in 1..NumContainers}

IsContainer(v) == v > 100

\* crit of _get_tensors and _set_tensors: a tensor of a float dtype
crit(elmt) == elmt \in 1..99

\* the parameters of _traverse_obj, those with a default, and the keywords
\* of the recursive call, which passes elmt by position
TraverseParams == <<"obj", "prefix", "action", "crit", "max_depth", "exception_ids">>
TraverseDefaults == {"max_depth", "exception_ids"}
RecursiveCallKeywords == {"action", "prefix", "max_depth", "exception_ids"}

\* a call with npos positional arguments and the keywords kws binds every
\* parameter that has no default; Python raises TypeError otherwise
CallBinds(npos, kws) ==
    \A i \in 1..Len(TraverseParams) :
        TraverseParams[i] \notin TraverseDefaults =>
            (i <= npos \/ TraverseParams[i] \in kws)

NoTraversal == [op |-> "none", max_depth |-> 0, status |-> "none",
                res |-> <<>>, names |-> <<>>, acted |-> <<>>,
                supplied |-> <<>>, left |-> <<>>, pre |-> <<>>,
                prev |-> "none", prevsupplied |-> <<>>, prevpre |-> <<>>]

\* the state a traversal threads through its calls
StartState(h, all_params) ==
    [heap |-> h, exception_ids |-> {}, status |-> "ok", res |-> <<>>,
     names |-> <<>>, acted |-> <<>>, all_params |-> all_params]

\* the action of _get_tensors ("get") and of _set_tensors ("set")
action(mode, elmt, name, objdict, key, st) ==
    IF mode = "get"
    THEN [st EXCEPT !.res = Append(@, elmt), !.names = Append(@, name),
                    !.acted = Append(@, elmt)]
    ELSE IF st.all_params = <<>>
    THEN [st EXCEPT !.status = "IndexError", !.acted = Append(@, elmt)]
    ELSE [st EXCEPT !.heap[objdict][key + 1] = Head(st.all_params),
                    !.all_params = Tail(@), !.acted = Append(@, elmt)]

\* _traverse_obj(obj, prefix, action, crit, max_depth, exception_ids), and
\* its loop from the k-th (key, elmt) pair on.  binds tells whether the
\* recursive call binds the parameters of the callee
RECURSIVE traverse_obj(_, _, _, _, _, _), traverse_from(_, _, _, _, _, _, _)
traverse_from(obj, prefix, mode, max_depth, binds, k, st) ==
    IF st.status # "ok" \/ k > Len(st.heap[obj]) THEN st
    ELSE LET elmt == st.heap[obj][k]
             name == Append(prefix, k - 1)
             st1 == [st EXCEPT !.exception_ids = @ \cup {elmt}]
         IN  IF elmt \in st.exception_ids
             THEN traverse_from(obj, prefix, mode, max_depth, binds, k + 1, st)
             ELSE IF crit(elmt)
             THEN traverse_from(obj, prefix, mode, max_depth, binds, k + 1,
                                action(mode, elmt, name, obj, k - 1, st1))
             ELSE IF IsContainer(elmt)
             THEN IF max_depth > 0
                  THEN IF binds
                       THEN traverse_from(obj, prefix, mode, max_depth, binds, k + 1,
                               traverse_obj(elmt, name, mode, max_depth - 1, binds, st1))
                       ELSE [st1 EXCEPT !.status = "TypeError"]
                  ELSE [st1 EXCEPT !.status = "RecursionError"]
             ELSE traverse_from(obj, prefix, mode, max_depth, binds, k + 1, st1)

traverse_obj(obj, prefix, mode, max_depth, binds, st) ==
    IF ~IsContainer(obj) THEN [st EXCEPT !.status = "RuntimeError"]
    ELSE traverse_from(obj, prefix, mode, max_depth, binds, 1, st)

\* _get_tensors(obj, max_depth=max_depth)
get_tensors(h, obj, max_depth) ==
    traverse_obj(obj, <<>>, "get", max_depth,
                 CallBinds(1, RecursiveCallKeywords), StartState(h, <<>>))

\* _set_tensors(obj, all_params, max_depth=max_depth)
set_tensors(h, obj, all_params, max_depth) ==
    traverse_obj(obj, <<>>, "set", max_depth,
                 CallBinds(1, RecursiveCallKeywords), StartState(h, all_params))

\* _get_tensors(root, max_depth=d)
GetTensors(d) ==
    LET r == get_tensors(heap, Root, d)
    IN  /\ tr' = [NoTraversal EXCEPT !.op = "get", !.max_depth = d,
                    !.status = r.status, !.res = r.res, !.names = r.names,
                    !.acted = r.acted, !.pre = heap,
                    !.prev = IF tr.op = "set" /\ tr.max_depth = d
                             THEN tr.status ELSE "none",
                    !.prevsupplied = IF tr.op = "set" /\ tr.max_depth = d
                                     THEN tr.supplied ELSE <<>>,
                    !.prevpre = IF tr.op = "set" /\ tr.max_depth = d
                                THEN tr.pre ELSE <<>>]
        /\ UNCHANGED <<heap, objvars, vervars>>

\* _set_tensors(root, all_params, max_depth=d); the slots written before an
\* error stay written
SetTensors(d, all_params) ==
    LET r == set_tensors(heap, Root, all_params, d)
    IN  /\ heap' = r.heap
        /\ tr' = [NoTraversal EXCEPT !.op = "set", !.max_depth = d,
                    !.status = r.status, !.acted = r.acted,
                    !.supplied = all_params, !.left = r.all_params,
                    !.pre = heap]
        /\ UNCHANGED <<objvars, vervars>>

-----------------------------------------------------------------------------
(* The verifier, assertparams.  The verified object is the root of the     *)
(* graph.  Its operation reads the root's slots meth.uses and has the side *)
(* effect meth.effect on the root's slot meth.slot; its getparams returns, *)
(* per entry of decl, the occupant of a slot of the root or a value kept   *)
(* outside the graph; its setparams writes the slot entries the way        *)
(* meth.setter tells.  A float tensor holds one element, a whole number of *)
(* units of 1e-9, or NaN; its shape is its number of elements.             *)

DefaultMaxDepth == 20

\* a float tensor that no slot of the graph holds, and a value that is not a
\* float tensor (a tensor of another dtype, or no tensor)
Foreign == 40
NonFloat == -2

\* the tensor an operation with the effect "store" creates and keeps
Stored == 30

\* tensor.clone().detach().requires_grad_(): a new identity
Clone(t) == t + 50

\* element values: not-a-number, and the two in-place changes an operation
\* makes (1e-6, and 5e-9, which is within the tolerance of torch.allclose)
NaN == -1
BigStep == 1000
TinyStep == 5

\* torch.allclose(p0, p1) with its defaults atol = 1e-8 and rtol = 1e-5:
\* |p0 - p1| <= atol + rtol * |p1|, false when either is NaN
Atol == 10
RtolInv == 100000

Abs(x) == IF x < 0 THEN 0 - x ELSE x

allclose(p0, p1) ==
    /\ p0 # NaN
    /\ p1 # NaN
    /\ RtolInv * Abs(p0 - p1) <= RtolInv * Atol + Abs(p1)

Effects == {"none", "value", "tiny", "shape", "drop", "store", "raise2"}
Setters == {"contract", "miscount", "swap", "shrink"}

NoMethod == [uses |-> {}, argsgrad |-> FALSE, effect |-> "none", slot |-> 0,
             setter |-> "contract", shrunk |-> FALSE]

NoVerify == [stage |-> "none", error |-> "none", warned |-> FALSE,
             probed |-> FALSE, graded |-> {}, user |-> <<>>, pre |-> <<>>,
             log |-> <<>>, h0 |-> <<>>, t0 |-> <<>>, h1 |-> <<>>, t1 |-> <<>>,
             params0 |-> <<>>, params1 |-> <<>>, count |-> -1,
             probeheap |-> <<>>, probeerr |-> "none", errors |-> <<>>]

\* the operation is called: method(*args, **kwargs).  probing tells that the
\* gradient-tracked clones are installed; an operation with the effect
\* "raise2" changes a tensor in place by an amount of zero, which raises on a
\* leaf tensor that requires a gradient
call_method(h, tn, m, probing) ==
    LET has == m.slot < Len(h[Root])
        occ == IF has THEN h[Root][m.slot + 1] ELSE Scalar
        same == [err |-> "none", heap |-> h, tens |-> tn]
    IN  IF m.effect = "raise2"
        THEN IF probing THEN [same EXCEPT !.err = "RuntimeError"] ELSE same
        ELSE IF m.effect = "value" /\ crit(occ)
        THEN [same EXCEPT !.tens[occ].val = IF @ = NaN THEN NaN ELSE @ + BigStep]
        ELSE IF m.effect = "tiny" /\ crit(occ)
        THEN [same EXCEPT !.tens[occ].val = IF @ = NaN THEN NaN ELSE @ + TinyStep]
        ELSE IF m.effect = "shape" /\ crit(occ)
        THEN [same EXCEPT !.tens[occ].shape = @ + 1]
        ELSE IF m.effect = "drop" /\ has
        THEN [same EXCEPT !.heap[Root][m.slot + 1] = Scalar]
        ELSE IF m.effect = "store" /\ has
        THEN [same EXCEPT !.heap[Root][m.slot + 1] = Stored,
                          !.tens = Put(tn, Stored, [val |-> 0, shape |-> 1])]
        ELSE same

\* getparams(op) of the verified object; once shrunk it leaves out the last
\* entry
user_getparams(h, dc, m) ==
    LET full == [i \in 1..Len(dc) |-> IF dc[i][1] = "slot"
                                      THEN h[Root][dc[i][2] + 1]
                                      ELSE dc[i][2]]
    IN  IF m.shrunk THEN SubSeq(full, 1, Len(full) - 1) ELSE full

\* the writes of setparams: the value at position src(i) goes to the slot of
\* entry i
RECURSIVE user_setparams_from(_, _, _, _, _)
user_setparams_from(h, dc, vals, rev, i) ==
    IF i > Len(dc) THEN h
    ELSE LET v == IF rev THEN vals[Len(dc) + 1 - i] ELSE vals[i]
         IN  user_setparams_from(
                IF dc[i][1] = "slot" THEN [h EXCEPT ![Root][dc[i][2] + 1] = v]
                ELSE h, dc, vals, rev, i + 1)

\* setparams(op, *vals) of the verified object: one value per entry of decl,
\* written to the slot the entry names; it raises, setting nothing, on fewer
\* values than entries.  A setter other than "contract" returns one more than
\* it set ("miscount"), writes the values in reverse order ("swap") or makes
\* the later getparams one entry shorter ("shrink")
user_setparams(h, dc, m, vals) ==
    IF Len(vals) < Len(dc)
    THEN [err |-> "ValueError", heap |-> h, count |-> -1, meth |-> m]
    ELSE [err |-> "none",
          heap |-> user_setparams_from(h, dc, vals, m.setter = "swap", 1),
          count |-> IF m.setter = "miscount" THEN Len(dc) + 1 ELSE Len(dc),
          meth |-> IF m.setter = "shrink" THEN [m EXCEPT !.shrunk = TRUE] ELSE m]

\* __get_error_message_ith_params: setparams(methodname, *params[:i]) inside
\* try/except; the object it leaves
get_error_message_ith_params(h, dc, m, user_params, i) ==
    user_setparams(h, dc, m, SubSeq(user_params, 1, i))

\* the comparison of __assert_method_preserve of the snapshots p0 with the
\* tensors p1 found after the call
preserved(p0, p1) ==
    /\ Len(p0) = Len(p1)
    /\ \A i \in 1..Len(p0) :
          /\ p0[i].shape = p1[i].shape
          /\ allclose(p0[i].val, p1[i].val)

\* __assert_method_preserve: the object's float tensors are collected and
\* cloned, the operation is called, the tensors are collected again and
\* compared with the clones
assert_method_preserve(h, tn, m) ==
    LET g0 == get_tensors(h, Root, DefaultMaxDepth)
        all_params0 == [i \in 1..Len(g0.res) |-> tn[g0.res[i]]]
        c == call_method(h, tn, m, FALSE)
        g1 == get_tensors(c.heap, Root, DefaultMaxDepth)
        all_params1 == [i \in 1..Len(g1.res) |-> c.tens[g1.res[i]]]
    IN  IF g0.status # "ok"
        THEN [err |-> g0.status, heap |-> h, tens |-> tn, log |-> <<"collect">>]
        ELSE IF c.err # "none"
        THEN [err |-> c.err, heap |-> c.heap, tens |-> c.tens,
              log |-> <<"collect", "method">>]
        ELSE [err |-> IF g1.status # "ok" THEN g1.status
                      ELSE IF ~preserved(all_params0, all_params1)
                      THEN "NotPreserved" ELSE "none",
              heap |-> c.heap, tens |-> c.tens,
              log |-> <<"collect", "method", "collect">>]

\* __assert_match_getsetparams; zip stops at the end of the shorter list
assert_match_getsetparams(h, dc, m) ==
    LET params0 == user_getparams(h, dc, m)
        st == user_setparams(h, dc, m, params0)
        params1 == user_getparams(st.heap, dc, st.meth)
        bad == {i \in 0..(Len(params0) - 1) :
                   i < Len(params1) /\ params0[i + 1] # params1[i + 1]}
        hint == get_error_message_ith_params(st.heap, dc, st.meth, params1,
                    CHOOSE i \in bad : \A k \in bad : i <= k)
        out == [err |-> "none", heap |-> st.heap, meth |-> st.meth,
                params0 |-> params0, params1 |-> <<>>, count |-> st.count,
                log |-> <<"getparams", "setparams">>]
    IN  IF st.err # "none" THEN [out EXCEPT !.err = st.err]
        ELSE IF st.count # Len(params0)
        THEN [out EXCEPT !.err = "CountMismatch"]
        ELSE IF bad # {}
        THEN [out EXCEPT !.err = "OrderMismatch", !.heap = hint.heap,
                         !.meth = hint.meth, !.params1 = params1,
                         !.log = <<"getparams", "setparams", "getparams",
                                   "setparams">>]
        ELSE [out EXCEPT !.params1 = params1,
                         !.log = <<"getparams", "setparams", "getparams">>]

\* torch.autograd.grad(output, copy_tensors0, allow_unused=True): the clones
\* the output depends on get a gradient, the others None; the call raises
\* when the output depends on nothing that requires a gradient
\* (occupants: the values the operation read)
autograd_grad(occupants, copy_tensors0, argsgrad) ==
    IF ~argsgrad /\ (occupants \cap Range(copy_tensors0)) = {}
    THEN [err |-> "RuntimeError", grads |-> <<>>]
    ELSE [err |-> "none",
          grads |-> [i \in 1..Len(copy_tensors0) |-> copy_tensors0[i] \in occupants]]

\* tn with a clone of every tensor of ts
RECURSIVE with_clones(_, _, _)
with_clones(tn, ts, i) ==
    IF i > Len(ts) THEN tn
    ELSE with_clones(Put(tn, Clone(ts[i]), tn[ts[i]]), ts, i + 1)

\* __list_operating_params: clones are installed, the operation is called,
\* the gradients are taken, the original tensors are installed again
list_operating_params(h, tn, m) ==
    LET g == get_tensors(h, Root, DefaultMaxDepth)
        all_tensors == g.res
        copy_tensors0 == [i \in 1..Len(all_tensors) |-> Clone(all_tensors[i])]
        s1 == set_tensors(h, Root, copy_tensors0, DefaultMaxDepth)
        occupants == {s1.heap[Root][k + 1] : k \in m.uses}
        c == call_method(s1.heap, with_clones(tn, all_tensors, 1), m, TRUE)
        gr == autograd_grad(occupants, copy_tensors0, m.argsgrad)
        s2 == set_tensors(c.heap, Root, all_tensors, DefaultMaxDepth)
        graded == {all_tensors[i] : i \in {k \in 1..Len(all_tensors) : gr.grads[k]}}
        oparams == [i \in 1..Cardinality(graded) |->
                     all_tensors[CHOOSE k \in 1..Len(all_tensors) :
                        /\ gr.grads[k]
                        /\ Cardinality({j \in 1..k : gr.grads[j]}) = i]]
        out == [err |-> "none", heap |-> h, tens |-> tn, probed |-> FALSE,
                params |-> <<>>, log |-> <<"collect">>]
    IN  IF g.status # "ok"
        THEN [out EXCEPT !.err = g.status]
        ELSE IF s1.status # "ok"
        THEN [out EXCEPT !.err = s1.status, !.heap = s1.heap,
                         !.log = <<"collect", "install">>]
        ELSE IF c.err # "none"
        THEN [out EXCEPT !.err = c.err, !.heap = c.heap, !.tens = c.tens,
                         !.log = <<"collect", "install", "method">>]
        ELSE IF gr.err # "none"
        THEN [out EXCEPT !.err = gr.err, !.heap = c.heap, !.tens = c.tens,
                         !.log = <<"collect", "install", "method", "grad">>]
        ELSE [out EXCEPT !.err = IF s2.status # "ok" THEN s2.status ELSE "none",
                         !.heap = s2.heap, !.tens = c.tens, !.probed = TRUE,
                         !.params = oparams,
                         !.log = <<"collect", "install", "method", "grad",
                                   "restore">>]

\* __assert_get_correct_params; g is what _get_tensors returned at line 163
\* and op what __list_operating_params returned and left at line 171
assert_get_correct_params(g, op, dc, m) ==
    LET all_params == g.res
        oper_params == op.params
        user_params == user_getparams(op.heap, dc, m)
        nonfloat == {i \in 0..(Len(user_params) - 1) : ~crit(user_params[i + 1])}
        missing == {i \in 0..(Len(oper_params) - 1) :
                       oper_params[i + 1] \notin Range(user_params)}
        excess == {i \in 0..(Len(user_params) - 1) :
                      user_params[i + 1] \notin Range(oper_params)}
        foreign == {i \in excess : user_params[i + 1] \notin Range(all_params)}
        hint(i) == get_error_message_ith_params(op.heap, dc, m, user_params, i)
        out == [err |-> "none", heap |-> op.heap, tens |-> op.tens, meth |-> m,
                warned |-> FALSE, probed |-> op.probed,
                graded |-> Range(oper_params), user |-> user_params,
                log |-> <<"collect">> \o op.log \o <<"getparams">>,
                probeheap |-> op.heap, probeerr |-> op.err]
    IN  IF g.status # "ok"
        THEN [out EXCEPT !.err = g.status, !.probed = FALSE, !.graded = {},
                         !.user = <<>>, !.log = <<"collect">>,
                         !.probeerr = "none"]
        ELSE IF op.err # "none"
        THEN [out EXCEPT !.err = op.err, !.user = <<>>,
                         !.log = <<"collect">> \o op.log]
        ELSE IF nonfloat # {}
        THEN LET r == hint(CHOOSE i \in nonfloat : \A k \in nonfloat : i <= k)
             IN  [out EXCEPT !.err = "NonFloat", !.heap = r.heap, !.meth = r.meth,
                             !.log = @ \o <<"setparams">>]
        ELSE IF foreign # {}
        THEN LET r == hint(CHOOSE i \in foreign : \A k \in foreign : i <= k)
             IN  [out EXCEPT !.err = "NotMember", !.warned = (missing # {}),
                             !.heap = r.heap, !.meth = r.meth,
                             !.log = @ \o <<"setparams">>]
        ELSE IF excess # {}
        THEN [out EXCEPT !.err = "Excess", !.warned = (missing # {})]
        ELSE [out EXCEPT !.warned = (missing # {})]

\* assertparams, first check
AssertMethodPreserve ==
    /\ vr.stage = "start"
    /\ \E r \in {assert_method_preserve(heap, tens, meth)} :
           /\ heap' = r.heap
           /\ tens' = r.tens
           /\ vr' = [vr EXCEPT !.stage = IF r.err = "none" THEN "preserved"
                                         ELSE "failed1",
                               !.error = r.err, !.errors = Append(@, r.err), !.log = @ \o r.log,
                               !.h0 = heap, !.t0 = tens,
                               !.h1 = r.heap, !.t1 = r.tens]
    /\ UNCHANGED <<objvars, tr, meth, decl>>

\* assertparams, second check
AssertMatchGetSetParams ==
    /\ vr.stage = "preserved"
    /\ \E r \in {assert_match_getsetparams(heap, decl, meth)} :
           /\ heap' = r.heap
           /\ meth' = r.meth
           /\ vr' = [vr EXCEPT !.stage = IF r.err = "none" THEN "matched"
                                         ELSE "failed2",
                               !.error = r.err, !.errors = Append(@, r.err), !.log = @ \o r.log,
                               !.params0 = r.params0, !.params1 = r.params1,
                               !.count = r.count]
    /\ UNCHANGED <<objvars, tr, tens, decl>>

\* AssertGetCorrectParams run also after a failed second check
AssertGetCorrectParams_afterfailure ==
    /\ vr.stage \in {"matched", "failed2"}
    /\ \E g \in {get_tensors(heap, Root, DefaultMaxDepth)},
          op \in {list_operating_params(heap, tens, meth)} :
       \E r \in {assert_get_correct_params(g, op, decl, meth)} :
           /\ heap' = r.heap
           /\ tens' = r.tens
           /\ meth' = r.meth
           /\ vr' = [vr EXCEPT !.stage = IF r.err = "none" THEN "done"
                                         ELSE "failed3",
                               !.error = r.err, !.errors = Append(@, r.err), !.warned = r.warned,
                               !.probed = r.probed, !.graded = r.graded,
                               !.user = r.user, !.pre = heap,
                               !.log = @ \o r.log,
                               !.probeheap = r.probeheap,
                               !.probeerr = r.probeerr]
    /\ UNCHANGED <<objvars, tr, decl>>

\* assertparams, third check
AssertGetCorrectParams ==
    /\ vr.stage = "matched"
    /\ \E g \in {get_tensors(heap, Root, DefaultMaxDepth)},
          op \in {list_operating_params(heap, tens, meth)} :
       \E r \in {assert_get_correct_params(g, op, decl, meth)} :
           /\ heap' = r.heap
           /\ tens' = r.tens
           /\ meth' = r.meth
           /\ vr' = [vr EXCEPT !.stage = IF r.err = "none" THEN "done"
                                         ELSE "failed3",
                               !.error = r.err, !.errors = Append(@, r.err), !.warned = r.warned,
                               !.probed = r.probed, !.graded = r.graded,
                               !.user = r.user, !.pre = heap,
                               !.log = @ \o r.log,
                               !.probeheap = r.probeheap,
                               !.probeerr = r.probeerr]
    /\ UNCHANGED <<objvars, tr, decl>>

-----
(* The record of the last call *)

\* args holds the arguments of a call that ended without an error, nargs
\* their number for every call
NoCall == [call |-> "none", op |-> "none", args |-> <<>>, nargs |-> 0,
           ret |-> <<>>,
           count |-> -1, err |-> "none", setcalls |-> <<>>,
           before |-> <<>>, aligned |-> TRUE, how |-> "none",
           changed |-> FALSE]

NoChain == [phase |-> 0, op |-> "none", r1 |-> <<>>]

\* every position of a cached group holds one identity
Aligned(c, op, allparams) ==
    \A j \in 1..Len(c.maps[op]) :
        \A k \in 1..Len(c.maps[op][j]) :
            allparams[c.maps[op][j][k] + 1] = allparams[c.maps[op][j][1] + 1]

SetCache(c) ==
    /\ has_unique_attrs' = c.has
    /\ unique_params_idxs' = c.idxs
    /\ unique_params_maps' = c.maps
    /\ number_of_params' = c.num

cachevars == <<has_unique_attrs, unique_params_idxs, unique_params_maps,
               number_of_params>>

-----------------------------------------------------------------------------
(* The calls a caller makes on the object *)

\* obj.setparams(op, *vals)
SetParams(op, vals) ==
    /\ params' = setparams(params, op, vals)
    /\ last' = [NoCall EXCEPT !.call = "setparams", !.op = op,
                  !.err = IF setparams_ok(params, op, vals) THEN "none"
                          ELSE "SetParamsError",
                  !.count = IF setparams_ok(params, op, vals)
                            THEN setparams_ret(params, op, vals) ELSE -1]
    /\ rt' = NoChain
    /\ UNCHANGED <<cachevars, scopes, graphvars>>

\* obj._get_unique_params_idxs(op)
GetUniqueParamsIdxs(op) ==
    LET r == get_unique_params_idxs(Cache, op, getparams(params, op))
    IN  /\ SetCache(r.cache)
        /\ last' = [NoCall EXCEPT !.call = "getidxs", !.op = op, !.ret = r.idxs]
        /\ rt' = NoChain
        /\ UNCHANGED <<params, scopes, graphvars>>

\* obj.getuniqueparams(op)
GetUniqueParams(op) ==
    LET r == getuniqueparams(Cache, params, op)
    IN  /\ SetCache(r.cache)
        /\ last' = [NoCall EXCEPT !.call = "getunique", !.op = op, !.ret = r.ret]
        /\ rt' = IF rt.phase = 2 /\ rt.op = op
                 THEN [rt EXCEPT !.phase = 3]
                 ELSE [phase |-> 1, op |-> op, r1 |-> r.ret]
        /\ UNCHANGED <<params, scopes, graphvars>>

\* obj.setuniqueparams(op, *uniqueparams)
SetUniqueParams(op, uniqueparams) ==
    LET r == setuniqueparams(Cache, params, op, uniqueparams)
    IN  /\ params' = r.params
        /\ last' = [NoCall EXCEPT !.call = "setunique", !.op = op,
                      !.args = IF r.err = "none" THEN uniqueparams ELSE <<>>,
                      !.nargs = Len(uniqueparams), !.err = r.err,
                      !.before = getparams(params, op),
                      !.setcalls = r.setcalls, !.count = r.count]
        /\ rt' = IF /\ rt.phase \in {1, 3} /\ rt.op = op /\ r.err = "none"
                    /\ uniqueparams = last.ret /\ last.call = "getunique"
                 THEN [phase |-> 2, op |-> op, r1 |-> uniqueparams]
                 ELSE NoChain
        /\ UNCHANGED <<cachevars, scopes, graphvars>>

\* UseParamsEnter that yields to the block although installing the
\* replacements raised
UseParamsEnter_silent(op, new) ==
    /\ LET g == getuniqueparams(Cache, params, op)
           orig_params == g.ret
           s == setuniqueparams(g.cache, params, op, new)
           before == getparams(params, op)
           al == Aligned(g.cache, op, before)
       IN  /\ SetCache(g.cache)
           /\ params' = s.params
           /\ scopes' = Append(scopes, [op |-> op, orig |-> orig_params,
                                        before |-> before, aligned |-> al,
                                        installed |-> getparams(s.params, op)])
           /\ last' = [NoCall EXCEPT !.call = "useenter", !.op = op,
                         !.args = new, !.nargs = Len(new),
                         !.err = IF s.err = "none" THEN "none" ELSE "swallowed",
                         !.setcalls = s.setcalls,
                         !.before = before, !.aligned = al]
    /\ rt' = NoChain
    /\ UNCHANGED graphvars

\* with obj.useparams(op, *new): the code up to the yield.  When installing
\* the replacements raises, the except clause swallows the error, the finally
\* clause restores, and the generator ends without yielding: the caller gets
\* the RuntimeError of contextlib and the block is not run
UseParamsEnter(op, new) ==
    /\ LET g == getuniqueparams(Cache, params, op)
           orig_params == g.ret
           s == setuniqueparams(g.cache, params, op, new)
           f == setuniqueparams(g.cache, s.params, op, orig_params)
           before == getparams(params, op)
           al == Aligned(g.cache, op, before)
       IN  /\ SetCache(g.cache)
           /\ IF s.err = "none"
              THEN /\ params' = s.params
                   /\ scopes' = Append(scopes, [op |-> op, orig |-> orig_params,
                                                before |-> before, aligned |-> al,
                                                installed |-> getparams(s.params, op)])
                   /\ last' = [NoCall EXCEPT !.call = "useenter", !.op = op,
                                 !.args = new, !.nargs = Len(new),
                                 !.setcalls = s.setcalls,
                                 !.before = before, !.aligned = al]
              ELSE /\ params' = f.params
                   /\ scopes' = scopes
                   /\ last' = [NoCall EXCEPT !.call = "useenter", !.op = op,
                                 !.nargs = Len(new), !.err = "RuntimeError",
                                 !.setcalls = f.setcalls,
                                 !.before = before, !.aligned = al]
    /\ rt' = NoChain
    /\ UNCHANGED graphvars

\* UseParamsExit with the restore on the normal path only, as without the
\* finally clause
UseParamsExit_nofinally(how) ==
    /\ Len(scopes) > 0
    /\ LET sc == scopes[Len(scopes)]
           f == setuniqueparams(Cache, params, sc.op, sc.orig)
       IN  /\ params' = IF how = "normal" THEN f.params ELSE params
           /\ last' = [NoCall EXCEPT !.call = "useexit", !.op = sc.op,
                         !.args = sc.orig, !.err = f.err, !.setcalls = f.setcalls,
                         !.before = sc.before, !.aligned = sc.aligned,
                         !.how = how,
                         !.changed = (getparams(params, sc.op) # sc.before)]
    /\ scopes' = SubSeq(scopes, 1, Len(scopes) - 1)
    /\ rt' = NoChain
    /\ UNCHANGED <<cachevars, graphvars>>

\* UseParamsExit restoring the snapshot of the outermost open scope
UseParamsExit_outermost(how) ==
    /\ Len(scopes) > 0
    /\ LET sc == scopes[Len(scopes)]
           f == setuniqueparams(Cache, params, sc.op, scopes[1].orig)
       IN  /\ params' = f.params
           /\ last' = [NoCall EXCEPT !.call = "useexit", !.op = sc.op,
                         !.args = scopes[1].orig,
                         !.err = IF f.err # "none" THEN f.err
                                 ELSE IF how = "interrupt" THEN "BaseException"
                                 ELSE "none",
                         !.setcalls = f.setcalls,
                         !.before = sc.before, !.aligned = sc.aligned,
                         !.how = how,
                         !.changed = (getparams(params, sc.op) # sc.before)]
    /\ scopes' = SubSeq(scopes, 1, Len(scopes) - 1)
    /\ rt' = NoChain
    /\ UNCHANGED <<cachevars, graphvars>>

\* UseParamsExit with an except clause that raises the exception of the block
\* again
UseParamsExit_reraise(how) ==
    /\ Len(scopes) > 0
    /\ LET sc == scopes[Len(scopes)]
           f == setuniqueparams(Cache, params, sc.op, sc.orig)
       IN  /\ params' = f.params
           /\ last' = [NoCall EXCEPT !.call = "useexit", !.op = sc.op,
                         !.args = sc.orig,
                         !.err = IF f.err # "none" THEN f.err
                                 ELSE IF how = "interrupt" THEN "BaseException"
                                 ELSE IF how = "raise" THEN "Exception"
                                 ELSE "none",
                         !.setcalls = f.setcalls,
                         !.before = sc.before, !.aligned = sc.aligned,
                         !.how = how,
                         !.changed = (getparams(params, sc.op) # sc.before)]
    /\ scopes' = SubSeq(scopes, 1, Len(scopes) - 1)
    /\ rt' = NoChain
    /\ UNCHANGED <<cachevars, graphvars>>

\* the innermost scope ends: its block completed ("normal"), raised an
\* Exception ("raise"), which the except clause swallows, or raised another
\* BaseException ("interrupt"), which passes; the finally clause restores in
\* every case, and what it raises is what the caller gets
UseParamsExit(how) ==
    /\ Len(scopes) > 0
    /\ LET sc == scopes[Len(scopes)]
           f == setuniqueparams(Cache, params, sc.op, sc.orig)
       IN  /\ params' = f.params
           /\ last' = [NoCall EXCEPT !.call = "useexit", !.op = sc.op,
                         !.args = sc.orig,
                         !.err = IF f.err # "none" THEN f.err
                                 ELSE IF how = "interrupt" THEN "BaseException"
                                 ELSE "none",
                         !.setcalls = f.setcalls,
                         !.before = sc.before, !.aligned = sc.aligned,
                         !.how = how,
                         !.changed = (getparams(params, sc.op) # sc.before)]
    /\ scopes' = SubSeq(scopes, 1, Len(scopes) - 1)
    /\ rt' = NoChain
    /\ UNCHANGED <<cachevars, graphvars>>

-----------------------------------------------------------------------------------------------------------------------------------------------------
(* The object under any sequence of calls *)

ParamLists == UNION {[1..k -> Tensors] : k \in 1..MaxParams}
ArgLists == SeqsUpTo(Tensors, MaxParams)

InitObject(ps) ==
    /\ params = ps
    /\ has_unique_attrs = FALSE
    /\ unique_params_idxs = <<>>
    /\ unique_params_maps = <<>>
    /\ number_of_params = <<>>
    /\ scopes = <<>>
    /\ last = NoCall
    /\ rt = NoChain
    /\ heap = <<>>
    /\ tr = NoTraversal
    /\ meth = NoMethod
    /\ decl = <<>>
    /\ vr = NoVerify
    /\ tens = <<>>

Init == \E ps \in [{"f"} -> ParamLists] : InitObject(ps)

Next ==
    \/ \E op \in DOMAIN params, vals \in ArgLists : SetParams(op, vals)
    \/ \E op \in DOMAIN params : GetUniqueParamsIdxs(op)
    \/ \E op \in DOMAIN params : GetUniqueParams(op)
    \/ \E op \in DOMAIN params, us \in ArgLists : SetUniqueParams(op, us)

Spec == Init /\ [][Next]_vars

\* C2: r1 = getuniqueparams(op), setuniqueparams(op, *r1), then
\* r2 = getuniqueparams(op): r2 has the length of r1 and holds the same
\* identity at every position.
C2_RoundTrip ==
    rt.phase = 3 =>
        /\ last.call = "getunique"
        /\ Len(last.ret) = Len(rt.r1)
        /\ \A k \in 1..Len(rt.r1) : last.ret[k] = rt.r1[k]

\* a round trip of two unique parameters that hold one tensor (the cache is
\* finer than the aliasing of the list by then)
C2_Witness ==
    /\ rt.phase = 3
    /\ Len(rt.r1) = 2
    /\ rt.r1[1] = rt.r1[2]
    /\ last.ret = rt.r1

-----------------------------------------------------------------------------
(* An object with two operation names, "g" with one parameter, under any   *)
(* sequence of calls                                                       *)

InitCache ==
    \E l \in ParamLists, t \in Tensors : InitObject([f |-> l, g |-> <<t>>])

SpecCache == InitCache /\ [][Next]_vars

\* the cache entry of op
Entry(c, op) == [idxs |-> c.idxs[op], maps |-> c.maps[op], num |-> c.num[op]]

Cached(c, op) == c.has /\ op \in DOMAIN c.idxs

\* the call recorded in last used the cache entry of its own operation name
UsesEntry ==
    /\ last.call = "getunique" =>
          /\ Cached(Cache, last.op)
          /\ last.ret = [j \in 1..Len(unique_params_idxs[last.op]) |->
                getparams(params, last.op)[unique_params_idxs[last.op][j] + 1]]
    /\ (last.call = "setunique" /\ last.err = "none") =>
          /\ Cached(Cache, last.op)
          /\ last.setcalls =
                <<FillLoop([i \in 1..number_of_params[last.op] |-> None],
                           unique_params_maps[last.op], last.args, 0).allparams>>

\* C14: the unique-index list, the group map and the full-list length of an
\* operation name are computed on the first request only, from the full list
\* of that operation at that time; every later getuniqueparams and
\* setuniqueparams of that name uses these cached values, whatever getparams
\* returns by then and whatever was set in between, and no call on one
\* operation name touches or uses the entry of another.
C14_CachedOnce ==
    [][/\ \A op \in DOMAIN params :
            /\ Cached(Cache, op) =>
                  /\ Cached(Cache', op)
                  /\ Entry(Cache', op) = Entry(Cache, op)
            /\ (~Cached(Cache, op) /\ Cached(Cache', op)) =>
                  /\ last'.call \in {"getidxs", "getunique"}
                  /\ last'.op = op
                  /\ LET u == UniqueIdxs(getparams(params, op))
                     IN  Entry(Cache', op) =
                            [idxs |-> u.idxs, maps |-> u.idx_map,
                             num |-> Len(getparams(params, op))]
       /\ UsesEntry']_vars

\* getuniqueparams("f") answered [a] from the entry computed on [a, a] while
\* the full list is [a, b], and the entry of "g" is another one
C14_Witness ==
    /\ last.call = "getunique"
    /\ last.op = "f"
    /\ Cached(Cache, "f")
    /\ Cached(Cache, "g")
    /\ unique_params_maps["f"] = << <<0, 1>> >>
    /\ unique_params_maps["g"] = << <<0>> >>
    /\ getparams(params, "f") = <<1, 2>>
    /\ last.ret = <<1>>

-----------------------------------------------------------------------------
(* The object under any sequence of calls and useparams scopes *)

NextUse ==
    \/ \E op \in DOMAIN params, vals \in ArgLists : SetParams(op, vals)
    \/ \E op \in DOMAIN params : GetUniqueParams(op)
    \/ /\ Len(scopes) < MaxScopes
       /\ \E op \in DOMAIN params, new \in ArgLists : UseParamsEnter(op, new)
    \/ \E how \in {"normal", "raise", "interrupt"} : UseParamsExit(how)

SpecUse == Init /\ [][NextUse]_vars

\* C1 as stated: after a useparams scope exits, normally or by an exception
\* of the block, getparams(op) is at every position the tensor it was
\* immediately before the scope was entered.
C1_RestoresAlways ==
    last.call = "useexit" =>
        /\ Len(getparams(params, last.op)) = Len(last.before)
        /\ \A k \in 1..Len(last.before) :
              getparams(params, last.op)[k] = last.before[k]

\* C1, amended: the same, for a scope entered while every group of the cached
\* group map of op holds one tensor at all its positions.
C1_RestoresWhenAligned ==
    (last.call = "useexit" /\ last.aligned) =>
        /\ Len(getparams(params, last.op)) = Len(last.before)
        /\ \A k \in 1..Len(last.before) :
              getparams(params, last.op)[k] = last.before[k]

\* a scope whose block raised, left with parameters other than the original
\* ones, has restored the original list
C1_Witness ==
    /\ last.call = "useexit"
    /\ last.how = "raise"
    /\ last.aligned
    /\ last.changed
    /\ Len(last.before) = 2
    /\ getparams(params, last.op) = last.before

C20_FailedEntryAlways ==
    [][(last'.call = "useenter" /\ last'.err # "none")
       => /\ params' = params
          /\ scopes' = scopes
          /\ last'.err = "RuntimeError"]_vars

\* C20, amended: the same, the parameters being those of before the entry
\* when at the entry every group of the cached group map of op held one
\* tensor at all its positions; the restore is the one call of setparams.
C20_FailedEntryWhenAligned ==
    [][(last'.call = "useenter" /\ last'.err # "none")
       => /\ last'.aligned => params' = params
          /\ Len(last'.setcalls) = 1
          /\ scopes' = scopes
          /\ last'.err = "RuntimeError"]_vars

\* a scope was entered with more values than the operation has cached
\* groups: RuntimeError, no scope open, setparams was called once with the
\* list of before the entry and the two parameters are as before
C20_Witness ==
    /\ last.call = "useenter"
    /\ last.err = "RuntimeError"
    /\ last.nargs > Len(unique_params_maps[last.op])
    /\ last.aligned
    /\ scopes = <<>>
    /\ Len(last.before) = 2
    /\ last.setcalls = <<last.before>>
    /\ getparams(params, last.op) = last.before

\* C19: setuniqueparams(op, ...) called when the instance has no cache entry
\* for op, or with more values than op has cached groups, ends in an error
\* without calling setparams, and the object's parameters are unchanged.
C19_ErrorsWithoutSet ==
    [][(/\ last'.call = "setunique"
        /\ IF Cached(Cache, last'.op)
           THEN last'.nargs > Len(unique_params_maps[last'.op])
           ELSE TRUE)
       => /\ last'.err \in {"AttributeError", "KeyError", "IndexError"}
          /\ last'.setcalls = <<>>
          /\ params' = params]_vars

\* setuniqueparams was called with values for an operation that has no cache
\* entry while another operation has one: KeyError, and nothing was set
C19_Witness ==
    /\ last.call = "setunique"
    /\ last.nargs > 0
    /\ last.err = "KeyError"
    /\ has_unique_attrs
    /\ last.op \notin DOMAIN unique_params_maps
    /\ last.setcalls = <<>>
    /\ getparams(params, last.op) = last.before

-----------------------------------------------------------------------------
(* useparams scopes inside useparams scopes, up to MaxNest deep; setparams  *)
(* is called outside the scopes only                                       *)

NextNest ==
    \/ /\ scopes = <<>>
       /\ \E op \in DOMAIN params, vals \in ArgLists : SetParams(op, vals)
    \/ /\ Len(scopes) < MaxNest
       /\ \E op \in DOMAIN params, new \in ArgLists : UseParamsEnter(op, new)
    \/ \E how \in {"normal", "raise", "interrupt"} : UseParamsExit(how)

SpecNest == Init /\ [][NextNest]_vars

\* a scope was entered: every position of cached group j holds the j-th
\* replacement
Installed ==
    (last.call = "useenter" /\ last.err = "none") =>
        \A j \in 1..Len(last.args) :
            \A k \in 1..Len(unique_params_maps[last.op][j]) :
                getparams(params, last.op)[unique_params_maps[last.op][j][k] + 1]
                    = last.args[j]

\* the full list is the one of the time the scope that just ended was
\* entered: the replacements of the enclosing scope, or the original list
RestoredToEntry ==
    /\ Len(getparams(params, last.op)) = Len(last.before)
    /\ \A k \in 1..Len(last.before) :
          getparams(params, last.op)[k] = last.before[k]
    /\ Len(scopes) > 0 =>
          getparams(params, last.op) = scopes[Len(scopes)].installed

\* C18 as stated: useparams scopes on one object and operation nest as a
\* stack: inside the inner scope the inner replacements are installed, after
\* the inner scope exits the full list is again the outer scope's
\* replacements, and after the outer scope exits it is again the original
\* list, whether a block ended normally or by raising.
C18_NestsAlways ==
    /\ Installed
    /\ last.call = "useexit" => RestoredToEntry

\* C18, amended: the same, the original list being restored when the
\* outermost scope was entered while every group of the cached group map of
\* op held one tensor at all its positions.
C18_NestsWhenAligned ==
    /\ Installed
    /\ (last.call = "useexit" /\ (Len(scopes) > 0 \/ last.aligned))
          => RestoredToEntry

\* an inner scope whose block raised has ended inside an outer scope that
\* replaced the parameters: the full list is the outer replacements
C18_Witness ==
    /\ last.call = "useexit"
    /\ last.how = "raise"
    /\ last.changed
    /\ Len(scopes) = 1
    /\ scopes[1].installed # scopes[1].before
    /\ getparams(params, last.op) = scopes[1].installed

-----------------------------------------------------------------------------
(* The unique-index computation and the broadcast of setuniqueparams on    *)
(* every full parameter list of up to MaxLen tensors: the list is drawn,   *)
(* the cache is computed from it, one list of unique values is set.        *)

IdxLists == SeqsUpTo(1..IdxTensors, MaxLen)

InitIdx == \E l \in IdxLists : InitObject([f |-> l])

NextIdx ==
    \/ /\ last.call = "none"
       /\ \E op \in DOMAIN params : GetUniqueParamsIdxs(op)
    \/ /\ last.call = "getidxs"
       /\ \E op \in DOMAIN params, us \in IdxLists : SetUniqueParams(op, us)

SpecIdx == InitIdx /\ [][NextIdx]_vars

\* C3: for a full list of length n the unique-index computation returns the
\* strictly increasing list of the first-occurrence position of each distinct
\* identity, a group map that partitions 0..n-1 in which group j begins with
\* unique index j and holds exactly the positions of that identity, and n as
\* the full-list length; [a, b, a, c] gives [0,1,3] and [[0,2],[1],[3]].
C3_UniqueIdxs ==
    last.call = "getidxs" =>
        LET a == getparams(params, last.op)
            n == Len(a)
            idxs == unique_params_idxs[last.op]
            maps == unique_params_maps[last.op]
        IN  /\ number_of_params[last.op] = n
            /\ last.ret = idxs
            /\ \A j \in 1..Len(idxs) :
                  /\ idxs[j] \in 0..(n - 1)
                  /\ \A k \in 1..(j - 1) : idxs[k] < idxs[j]
                  /\ \A i \in 0..(idxs[j] - 1) : a[i + 1] # a[idxs[j] + 1]
            /\ \A i \in 0..(n - 1) :
                  \E j \in 1..Len(idxs) : a[idxs[j] + 1] = a[i + 1]
            /\ Len(maps) = Len(idxs)
            /\ \A j \in 1..Len(maps) :
                  /\ maps[j][1] = idxs[j]
                  /\ \A k \in 2..Len(maps[j]) : maps[j][k - 1] < maps[j][k]
                  /\ Range(maps[j]) =
                        {i \in 0..(n - 1) : a[i + 1] = a[idxs[j] + 1]}
            /\ \A i \in 0..(n - 1) :
                  Cardinality({j \in 1..Len(maps) : i \in Range(maps[j])}) = 1
            /\ (n = 4 /\ a[1] = a[3] /\ a[2] # a[1] /\ a[4] \notin {a[1], a[2]})
                  => (idxs = <<0, 1, 3>> /\ maps = << <<0, 2>>, <<1>>, <<3>> >>)

\* the list [a, b, a, c] has been indexed
C3_Witness ==
    /\ last.call = "getidxs"
    /\ getparams(params, "f") = <<1, 2, 1, 3>>
    /\ unique_params_idxs["f"] = <<0, 1, 3>>
    /\ unique_params_maps["f"] = << <<0, 2>>, <<1>>, <<3>> >>
    /\ number_of_params["f"] = 4

\* C4: with the cache of op in place, setuniqueparams(op, u_0..u_{k-1}) with
\* k the number of cached groups calls setparams once, with a list of the
\* cached full length that holds u_j at every position of group j and leaves
\* no position unset, and returns what setparams returns; on [a, b, a, c] the
\* values (a2, b2, c2) give [a2, b2, a2, c2].
C4_Broadcast ==
    (/\ last.call = "setunique"
     /\ last.nargs = Len(unique_params_maps[last.op])) =>
        LET maps == unique_params_maps[last.op]
            n == number_of_params[last.op]
            u == last.args
        IN  /\ last.err = "none"
            /\ Len(last.setcalls) = 1
            /\ Len(last.setcalls[1]) = n
            /\ \A i \in 0..(n - 1) :
                  /\ last.setcalls[1][i + 1] # None
                  /\ \E j \in 1..Len(maps) :
                        /\ i \in Range(maps[j])
                        /\ last.setcalls[1][i + 1] = u[j]
            /\ last.count = setparams_ret(params, last.op, last.setcalls[1])
            /\ getparams(params, last.op) = last.setcalls[1]
            /\ maps = << <<0, 2>>, <<1>>, <<3>> >>
                  => last.setcalls[1] = <<u[1], u[2], u[1], u[3]>>

\* on the list [a, b, a, c] = [1, 2, 1, 3] the values (2, 3, 1) were set
C4_Witness ==
    /\ last.call = "setunique"
    /\ last.before = <<1, 2, 1, 3>>
    /\ last.args = <<2, 3, 1>>
    /\ last.setcalls = << <<2, 3, 2, 1>> >>
    /\ last.count = 4
    /\ getparams(params, "f") = <<2, 3, 2, 1>>
-----------------------------------------------------------------------------
(* The traversal on every object graph of up to NumContainers containers   *)

GraphValues == (1..GraphTensors) \cup Containers \cup {Scalar}
SupplyLists == SeqsUpTo(1..(GraphTensors + 1), MaxSupply)

\* the containers reachable from those of S
RECURSIVE ReachFrom(_, _)
ReachFrom(h, S) ==
    LET S2 == S \cup {c \in Containers : \E p \in S : c \in Range(h[p])}
    IN  IF S2 = S THEN S ELSE ReachFrom(h, S2)

\* the float tensors held by the containers reachable from the root
ReachableTensors(h) ==
    {t \in 1..99 : \E c \in ReachFrom(h, {Root}) : t \in Range(h[c])}

\* the longest chain of containers below c; 99 when a chain comes back to a
\* container it passed
RECURSIVE Height(_, _, _)
Height(h, c, path) ==
    IF c \in path THEN 99
    ELSE LET below == {Height(h, e, path \cup {c}) :
                          e \in {v \in Range(h[c]) : IsContainer(v)}}
         IN  IF below = {} THEN 0
             ELSE IF 99 \in below THEN 99
             ELSE 1 + CHOOSE m \in below : \A x \in below : x <= m

Acyclic(h) == Height(h, Root, {}) < 99

\* every container is held by at most one slot, and the root by none
TreeShaped(h) ==
    /\ Acyclic(h)
    /\ \A c \in Containers :
          Cardinality({<<p, k>> \in Containers \X (1..MaxSlots) :
                          k <= Len(h[p]) /\ h[p][k] = c}) <= 1

InitGraph ==
    /\ heap \in [Containers -> SeqsUpTo(GraphValues, MaxSlots)]
    /\ \A c \in Containers \ ReachFrom(heap, {Root}) : heap[c] = <<>>
    /\ tr = NoTraversal
    /\ meth = NoMethod
    /\ decl = <<>>
    /\ vr = NoVerify
    /\ tens = <<>>
    /\ params = <<>>
    /\ has_unique_attrs = FALSE
    /\ unique_params_idxs = <<>>
    /\ unique_params_maps = <<>>
    /\ number_of_params = <<>>
    /\ scopes = <<>>
    /\ last = NoCall
    /\ rt = NoChain

\* a caller collects, or installs a list and then collects with the same
\* depth bound
NextGraph ==
    \/ /\ tr.op = "none"
       /\ \E d \in 0..MaxDepthArg : GetTensors(d)
    \/ /\ tr.op = "none"
       /\ \E d \in 0..MaxDepthArg, l \in SupplyLists : SetTensors(d, l)
    \/ /\ tr.op = "set"
       /\ GetTensors(tr.max_depth)

SpecGraph == InitGraph /\ [][NextGraph]_vars

\* the traversal _traverse_obj makes when every call binds its parameters
Reference(h, mode, d, all_params) ==
    traverse_obj(Root, <<>>, mode, d, TRUE, StartState(h, all_params))

NoDuplicates(s) == \A i, j \in 1..Len(s) : i # j => s[i] # s[j]

\* C5: collecting on an acyclic graph of depth at most the bound returns
\* every float tensor reachable from the root at any nesting level, each
\* once, in traversal order, with one path name per tensor.
C5_CollectsAll ==
    (/\ tr.op = "get"
     /\ Acyclic(heap)
     /\ Height(heap, Root, {}) <= tr.max_depth) =>
        /\ tr.status = "ok"
        /\ Range(tr.res) = ReachableTensors(heap)
        /\ NoDuplicates(tr.res)
        /\ Len(tr.names) = Len(tr.res)
        /\ NoDuplicates(tr.names)
        /\ tr.res = Reference(heap, "get", tr.max_depth, <<>>).res
        /\ tr.names = Reference(heap, "get", tr.max_depth, <<>>).names

\* C6: on an acyclic graph of depth at most the bound in which collect finds
\* N tensors, installing any list of N tensors and collecting again yields
\* that list, position by position.
C6_InstallThenCollect ==
    (/\ tr.op = "get"
     /\ tr.prev # "none"
     /\ Acyclic(tr.prevpre)
     /\ Height(tr.prevpre, Root, {}) <= tr.max_depth
     /\ get_tensors(tr.prevpre, Root, tr.max_depth).status = "ok"
     /\ Len(tr.prevsupplied) =
           Len(get_tensors(tr.prevpre, Root, tr.max_depth).res)) =>
        /\ tr.prev = "ok"
        /\ tr.status = "ok"
        /\ tr.res = tr.prevsupplied

\* the root holds container 2, container 2 holds the root, and no other
\* container is reachable
TwoCycle(h) ==
    /\ Cont(2) \in Range(h[Root])
    /\ Root \in Range(h[Cont(2)])
    /\ ReachFrom(h, {Root}) = {Root, Cont(2)}

\* C7: on a graph with the cycle A holds B, B holds A, within the depth
\* bound, the traversal ends and invokes the action once for each distinct
\* float tensor held by A or B.
C7_CycleVisitsOnce ==
    (/\ tr.op = "get"
     /\ TwoCycle(heap)
     /\ tr.max_depth >= 2) =>
        /\ tr.status = "ok"
        /\ Range(tr.acted) = ReachableTensors(heap)
        /\ NoDuplicates(tr.acted)

\* C8: with depth bound d a traversal that reaches a container nested more
\* than d levels below the root fails with the depth error, and a graph whose
\* containers are nested at most d levels below the root never raises it.
C8_DepthError ==
    (/\ tr.op = "get"
     /\ TreeShaped(heap)) =>
        /\ Height(heap, Root, {}) > tr.max_depth => tr.status = "RecursionError"
        /\ Height(heap, Root, {}) <= tr.max_depth => tr.status # "RecursionError"

-----------------------------------------------------------------------------
(* assertparams on every object whose root holds up to MaxSlots slots      *)

\* every tensor of the graph holds 0.0 in one element
PlainTensors == [t \in 1..GraphTensors |-> [val |-> 0, shape |-> 1]]

DeclEntries ==
    {<<"slot", k>> : k \in 0..(MaxSlots - 1)}
        \cup {<<"val", Foreign>>, <<"val", NonFloat>>}

InitVerify ==
    /\ \E slots \in SeqsUpTo(GraphValues, MaxSlots) :
          /\ heap = [c \in Containers |-> IF c = Root THEN slots ELSE <<>>]
          /\ \E uses \in SUBSET (0..(Len(slots) - 1)), argsgrad \in BOOLEAN :
                meth = [NoMethod EXCEPT !.uses = uses, !.argsgrad = argsgrad]
          /\ \E d \in SeqsUpTo(DeclEntries, MaxDecl) :
                /\ \A i \in 1..Len(d) : d[i][1] = "slot" => d[i][2] < Len(slots)
                /\ decl = d
    /\ vr = [NoVerify EXCEPT !.stage = "start"]
    /\ tens = PlainTensors
    /\ tr = NoTraversal
    /\ params = <<>>
    /\ has_unique_attrs = FALSE
    /\ unique_params_idxs = <<>>
    /\ unique_params_maps = <<>>
    /\ number_of_params = <<>>
    /\ scopes = <<>>
    /\ last = NoCall
    /\ rt = NoChain

NextVerify ==
    \/ AssertMethodPreserve
    \/ AssertMatchGetSetParams
    \/ AssertGetCorrectParams

SpecVerify == InitVerify /\ [][NextVerify]_vars

\* the float tensors among what getparams returned that got no gradient
DeclaredNoGrad ==
    {t \in Range(user_getparams(vr.pre, decl, meth)) : crit(t) /\ t \notin vr.graded}

\* the gradient-probing check ran to its gradients on a list of float tensors
Probed ==
    /\ vr.stage \in {"done", "failed3"}
    /\ vr.probed
    /\ \A t \in Range(user_getparams(vr.pre, decl, meth)) : crit(t)

\* C9: in the gradient-probing check a tensor returned by getparams that
\* received no gradient makes the verification fail: with the excess-parameter
\* error when it is a reachable member, with the not-a-member error when it
\* is not; with members w, b and f(x) = w*x, declaring [w, b] is the
\* excess-parameter error and declaring [w] gives no error and no warning.
C9_NoGradientIsFatal ==
    Probed =>
        /\ DeclaredNoGrad # {} =>
              /\ vr.error \in {"Excess", "NotMember"}
              /\ DeclaredNoGrad \subseteq ReachableTensors(vr.pre)
                    => vr.error = "Excess"
              /\ DeclaredNoGrad \cap ReachableTensors(vr.pre) = {}
                    => vr.error = "NotMember"
        /\ (vr.pre[Root] = <<1, 2>> /\ meth.uses = {0}) =>
              /\ decl = << <<"slot", 0>>, <<"slot", 1>> >> => vr.error = "Excess"
              /\ decl = << <<"slot", 0>> >> =>
                    (vr.stage = "done" /\ vr.error = "none" /\ ~vr.warned)

\* C10: in the gradient-probing check a reachable tensor that received a
\* gradient and is not returned by getparams gives the missing-parameter
\* warning, and the verification then completes without raising when there
\* is no other violation; the warning is given exactly when there is such a
\* tensor.
C10_MissingIsWarning ==
    Probed =>
        LET missing == vr.graded \ Range(user_getparams(vr.pre, decl, meth))
        IN  /\ vr.warned <=> missing # {}
            /\ (missing # {} /\ DeclaredNoGrad = {}) =>
                  (vr.stage = "done" /\ vr.error = "none")

-----------------------------------------------------------------------------
(* assertparams on classes that break the contract: an operation with a    *)
(* side effect, a setparams that miscounts, writes out of order or changes *)
(* what getparams returns, a tensor that holds NaN                         *)

SlotEntries == {<<"slot", k>> : k \in 0..(MaxSlots - 1)}

InitAssert ==
    /\ \E slots \in SeqsUpTo(GraphValues, MaxSlots) :
          /\ heap = [c \in Containers |-> IF c = Root THEN slots ELSE <<>>]
          /\ \E vals \in [1..GraphTensors -> {0, NaN}] :
                /\ \A t \in 1..GraphTensors : t \notin Range(slots) => vals[t] = 0
                /\ tens = [t \in 1..GraphTensors |-> [val |-> vals[t], shape |-> 1]]
          /\ \E uses \in {{}, {0}}, argsgrad \in BOOLEAN, e \in Effects,
                k \in 0..(MaxSlots - 1), st \in Setters :
                /\ uses \subseteq 0..(Len(slots) - 1)
                /\ IF e \in {"none", "raise2"} THEN k = 0 ELSE k < Len(slots)
                /\ meth = [uses |-> uses, argsgrad |-> argsgrad, effect |-> e,
                           slot |-> k, setter |-> st, shrunk |-> FALSE]
          /\ \E d \in SeqsUpTo(SlotEntries, MaxDecl) :
                /\ \A i \in 1..Len(d) : d[i][2] < Len(slots)
                /\ decl = d
    /\ vr = [NoVerify EXCEPT !.stage = "start"]
    /\ tr = NoTraversal
    /\ params = <<>>
    /\ has_unique_attrs = FALSE
    /\ unique_params_idxs = <<>>
    /\ unique_params_maps = <<>>
    /\ number_of_params = <<>>
    /\ scopes = <<>>
    /\ last = NoCall
    /\ rt = NoChain

SpecAssert == InitAssert /\ [][NextVerify]_vars

\* the float tensors of the object in traversal order, with their values and
\* shapes, as a traversal whose every call binds its parameters finds them
Snapshot(h, tn) ==
    LET r == Reference(h, "get", DefaultMaxDepth, <<>>).res
    IN  [i \in 1..Len(r) |-> tn[r[i]]]

\* the first call of the operation changed the number of the object's float
\* tensors, or the shape or the value of one of them
MethodChanged ==
    LET p0 == Snapshot(vr.h0, vr.t0)
        p1 == Snapshot(vr.h1, vr.t1)
    IN  \/ Len(p0) # Len(p1)
        \/ \E i \in 1..Len(p0) : p0[i].shape # p1[i].shape \/ p0[i].val # p1[i].val

\* C11: the verifier raises the state-preservation error whenever the call of
\* the operation changes the number of reachable tensors, the shape of one of
\* them or the value of one of them, compared in traversal order with the
\* snapshots taken before the call, and raises no state-preservation error
\* when the call leaves all of these unchanged.
C11_PreserveError ==
    vr.stage \notin {"none", "start"} =>
        (MethodChanged <=> (vr.stage = "failed1" /\ vr.error = "NotPreserved"))
\* C12: after the gradient-probing step ends, every tensor slot of the object
\* holds the tensor (by identity) that it held before the step, however the
\* step ended (normally, with a contract error, with a failure of the
\* operation or of the gradient computation while the clones are installed)
\* and whatever the graph, one tensor in several slots included.
C12_ProbeRestores ==
    vr.stage \in {"done", "failed3"} =>
        \A c \in Containers : \A k \in 1..Len(vr.pre[c]) :
            crit(vr.pre[c][k]) =>
                /\ k <= Len(vr.probeheap[c])
                /\ vr.probeheap[c][k] = vr.pre[c][k]
Count(s, x) == Cardinality({i \in 1..Len(s) : s[i] = x})

\* C15: the verifier runs state-preservation, declaration-consistency and
\* gradient-probing in this order and stops at the first check that fails:
\* when state-preservation fails neither getparams nor setparams is called
\* and no clones are installed, and when declaration-consistency fails the
\* gradient-probing step (the installation of the clones and the second call
\* of the operation) never starts.
C15_FixedOrder ==
    /\ \A i \in 1..(Len(vr.errors) - 1) : vr.errors[i] = "none"
    /\ vr.stage = "failed1" <=> (Len(vr.errors) = 1 /\ vr.errors[1] # "none")
    /\ vr.stage = "failed2" <=> (Len(vr.errors) = 2 /\ vr.errors[2] # "none")
    /\ Len(vr.errors) <= 1 =>
          {"getparams", "setparams", "install", "grad", "restore"}
              \cap Range(vr.log) = {}
    /\ Len(vr.errors) <= 2 =>
          /\ {"install", "grad", "restore"} \cap Range(vr.log) = {}
          /\ Count(vr.log, "method") <= 1
    /\ \A i \in 1..Len(vr.log) :
          /\ vr.log[i] \in {"getparams", "setparams"} =>
                \E j \in 1..(i - 1) : vr.log[j] = "method"
          /\ vr.log[i] = "install" =>
                \E j \in 1..(i - 1) : vr.log[j] = "getparams"

\* the declaration-consistency check failed on the order of the parameters,
\* after the operation was called once and nothing was installed
C15_Witness ==
    /\ vr.stage = "failed2"
    /\ vr.error = "OrderMismatch"
    /\ vr.log = <<"collect", "method", "collect",
                  "getparams", "setparams", "getparams", "setparams">>
\* C16: the declaration-consistency check raises a contract error whenever
\* setparams(op, *getparams(op)) returns a count other than the length of
\* that list, and whenever a second getparams(op) is not identity-equal to
\* the first at every position of the first list, a shorter second list
\* included; it raises nothing when the count matches and the lists are
\* identity-equal position by position.
C16_DeclarationConsistency ==
    Len(vr.errors) >= 2 =>
        LET miscounted == vr.count # Len(vr.params0)
            differs == \E i \in 1..Len(vr.params0) :
                          \/ i > Len(vr.params1)
                          \/ vr.params1[i] # vr.params0[i]
        IN  (vr.errors[2] \in {"CountMismatch", "OrderMismatch"})
                <=> (miscounted \/ differs)
\* C17: installing a list consumes the supplied tensors from the front, one
\* per matched slot in traversal order: with fewer supplied tensors than
\* matched slots it fails with an error, with at least as many it succeeds,
\* writes one tensor into each matched slot and leaves the surplus tensors,
\* unconsumed, at the end of the list.
C17_ConsumesFromFront ==
    (/\ tr.op = "set"
     /\ Reference(tr.pre, "get", tr.max_depth, <<>>).status = "ok") =>
        LET matches == Len(Reference(tr.pre, "get", tr.max_depth, <<>>).acted)
            ref == Reference(tr.pre, "set", tr.max_depth, tr.supplied)
        IN  IF Len(tr.supplied) < matches
            THEN tr.status # "ok"
            ELSE /\ tr.status = "ok"
                 /\ Len(tr.acted) = matches
                 /\ heap = ref.heap
                 /\ tr.left = SubSeq(tr.supplied, matches + 1, Len(tr.supplied))

====
